---- MODULE Spec2Model ----
(***************************************************************************)
(* lazy_docs: docstring canonicalisation, markup translation, signature    *)
(* rendering and the three emitters (LaTeX, Markdown, Graphviz dot) of     *)
(* formatters.py.                                                          *)
(*                                                                         *)
(* A text is a sequence of one-character strings.  An element of more than *)
(* one character is a literal the emitter writes whole (a LaTeX command, a *)
(* word of prose); it holds no character a rule of the code looks at.      *)
(***************************************************************************)
EXTENDS Naturals, Sequences, FiniteSets

VARIABLES
    \* canonicalize_description (formatters.py 262-288)
    docstring, line_no, group, block, in_list, canon_pc,
    \* _sanitize / convert_type (formatters.py 179-192)
    type_rep, result, text_pc,
    \* Formatter.export (formatters.py 16-174)
    kind, modules, markers, body, gen, mod, visited, class_no, method_no, pc,
    error, outfile, written, exports

canon_vars == <<docstring, line_no, group, block, in_list, canon_pc>>
text_vars == <<type_rep, result, text_pc>>
export_vars == <<kind, modules, markers, body, gen, mod, visited, class_no,
                 method_no, pc, error, outfile, written, exports>>
vars == <<canon_vars, text_vars, export_vars>>

(***************************************************************************)
(* Bounds of the model.                                                    *)
(***************************************************************************)
MaxDocPieces == 5
MaxTypePieces == 3
MaxMembers == 3
MaxRoots == 2
MaxExports == 2

(***************************************************************************)
(* Python str operations on texts.                                         *)
(***************************************************************************)
\* The characters U+00A0, U+0027 and U+0060, by name.
NBSP == "nbsp"
QUOTE == "quote"
BACKTICK == "backtick"
Whitespace == {" ", "\t", "\n", NBSP}

IsAt(t, p, i) ==
    /\ i + Len(p) - 1 <= Len(t)
    /\ \A k \in 1..Len(p) : t[i + k - 1] = p[k]

RECURSIVE ReplaceFrom(_, _, _, _)
ReplaceFrom(t, old, new, i) ==
    IF i > Len(t) THEN <<>>
    ELSE IF IsAt(t, old, i) THEN new \o ReplaceFrom(t, old, new, i + Len(old))
    ELSE <<t[i]>> \o ReplaceFrom(t, old, new, i + 1)

Replace(t, old, new) == ReplaceFrom(t, old, new, 1)

RECURSIVE CountFrom(_, _, _)
CountFrom(t, p, i) ==
    IF i > Len(t) THEN 0
    ELSE IF IsAt(t, p, i) THEN 1 + CountFrom(t, p, i + Len(p))
    ELSE CountFrom(t, p, i + 1)

Count(t, p) == CountFrom(t, p, 1)

Contains(t, p) == \E i \in 1..(Len(t) + 1) : IsAt(t, p, i)

StartsWith(t, p) == IsAt(t, p, 1)

EndsWith(t, p) == Len(p) <= Len(t) /\ IsAt(t, p, Len(t) - Len(p) + 1)

RECURSIVE RStrip(_)
RStrip(t) ==
    IF t # <<>> /\ t[Len(t)] \in Whitespace THEN RStrip(SubSeq(t, 1, Len(t) - 1))
    ELSE t

RECURSIVE LStrip(_)
LStrip(t) ==
    IF t # <<>> /\ t[1] \in Whitespace THEN LStrip(Tail(t)) ELSE t

Strip(t) == LStrip(RStrip(t))

RECURSIVE SplitFrom(_, _, _)
SplitFrom(t, i, cur) ==
    IF i > Len(t) THEN <<cur>>
    ELSE IF t[i] = "\n" THEN <<cur>> \o SplitFrom(t, i + 1, <<>>)
    ELSE SplitFrom(t, i + 1, Append(cur, t[i]))

SplitLines(t) == SplitFrom(t, 1, <<>>)

RECURSIVE Concat(_)
Concat(ts) == IF ts = <<>> THEN <<>> ELSE Head(ts) \o Concat(Tail(ts))

RECURSIVE Join(_, _)
Join(sep, ts) ==
    IF ts = <<>> THEN <<>>
    ELSE IF Len(ts) = 1 THEN Head(ts)
    ELSE Head(ts) \o sep \o Join(sep, Tail(ts))

RECURSIVE SeqsUpTo(_, _)
SeqsUpTo(S, n) ==
    IF n = 0 THEN {<<>>}
    ELSE LET shorter == SeqsUpTo(S, n - 1)
         IN  shorter \cup {Append(s, x) : s \in shorter, x \in S}

(***************************************************************************)
(* canonicalize_description                                                *)
(***************************************************************************)
PARAMETERS == <<"P", "a", "r", "a", "m", "e", "t", "e", "r", "s", ":">>
EXAMPLES == <<"E", "x", "a", "m", "p", "l", "e", "s", ":">>
RAISES == <<"R", "a", "i", "s", "e", "s", ":">>
STOP_AT == {PARAMETERS, EXAMPLES, RAISES}

BEGIN_ITEMIZE == <<"\\", "b", "e", "g", "i", "n", "{", "i", "t", "e", "m", "i", "z", "e", "}">>
END_ITEMIZE == <<"\\", "e", "n", "d", "{", "i", "t", "e", "m", "i", "z", "e", "}">>
ITEM == <<"\\", "i", "t", "e", "m">>

CanonStart == [group |-> TRUE, block |-> <<>>, in_list |-> FALSE]

\* if line == "": ... continue                      (formatters.py 272-277)
EmptyLine(st) ==
    [group |-> TRUE,
     block |-> st.block
               \o (IF st.in_list THEN <<"\n">> \o END_ITEMIZE ELSE <<>>)
               \o <<"\n", "\n">>,
     in_list |-> FALSE]

\* if line.strip().startswith("*"): ... continue    (formatters.py 278-283)
BulletLine(st, line) ==
    [group |-> TRUE,
     block |-> st.block
               \o (IF ~st.in_list THEN BEGIN_ITEMIZE ELSE <<>>)
               \o <<"\n">> \o ITEM
               \o RStrip(Replace(line, <<"*">>, <<>>)),
     in_list |-> TRUE]

\* block += " " + line.rstrip()                     (formatters.py 285)
FoldLine(st, line) ==
    [group |-> TRUE,
     block |-> st.block \o <<" ">> \o RStrip(line),
     in_list |-> st.in_list]

\* block += line + "\n"                             (formatters.py 287)
VerbatimLine(st, line) ==
    [group |-> FALSE,
     block |-> st.block \o line \o <<"\n">>,
     in_list |-> st.in_list]

GroupedLine(st, line) ==
    IF line = <<>> THEN EmptyLine(st)
    ELSE IF StartsWith(Strip(line), <<"*">>) THEN BulletLine(st, line)
    ELSE FoldLine(st, line)

\* A slip: group is recomputed from the current line alone.
CanonLine_GroupNotSticky(st, line) ==
    IF Strip(line) \notin STOP_AT THEN GroupedLine(st, line)
    ELSE VerbatimLine(st, line)

\* A slip: the empty line forgets to close the open list.
CanonLine_NoListClose(st, line) ==
    IF st.group /\ Strip(line) \notin STOP_AT
    THEN IF line = <<>>
         THEN [group |-> TRUE, block |-> st.block \o <<"\n", "\n">>, in_list |-> FALSE]
         ELSE GroupedLine(st, line)
    ELSE VerbatimLine(st, line)

\* One iteration of the loop over docstring.split("\n").
CanonLine(st, line) ==
    IF st.group /\ Strip(line) \notin STOP_AT THEN GroupedLine(st, line)
    ELSE VerbatimLine(st, line)

RECURSIVE CanonLines(_, _)
CanonLines(st, ls) ==
    IF ls = <<>> THEN st ELSE CanonLines(CanonLine(st, Head(ls)), Tail(ls))

canonicalize_description(d) == CanonLines(CanonStart, SplitLines(d)).block

DocPieces == {<<"a">>, <<" ">>, <<"*">>, <<"\n">>, PARAMETERS}
Docstrings == {Concat(ps) : ps \in SeqsUpTo(DocPieces, MaxDocPieces)}

lines == SplitLines(docstring)

CanonIdle ==
    /\ docstring = <<>>
    /\ line_no = 0
    /\ group = TRUE
    /\ block = <<>>
    /\ in_list = FALSE
    /\ canon_pc = "idle"

CanonInit ==
    /\ docstring \in Docstrings
    /\ line_no = 0
    /\ group = CanonStart.group
    /\ block = CanonStart.block
    /\ in_list = CanonStart.in_list
    /\ canon_pc = "loop"

\* The loop body on the next line.
CanonStep ==
    /\ canon_pc = "loop"
    /\ line_no < Len(lines)
    /\ LET st == CanonLine([group |-> group, block |-> block, in_list |-> in_list],
                           lines[line_no + 1])
       IN  /\ group' = st.group
           /\ block' = st.block
           /\ in_list' = st.in_list
    /\ line_no' = line_no + 1
    /\ UNCHANGED <<docstring, canon_pc, text_vars, export_vars>>

\* return block
CanonReturn ==
    /\ canon_pc = "loop"
    /\ line_no = Len(lines)
    /\ canon_pc' = "done"
    /\ UNCHANGED <<docstring, line_no, group, block, in_list, text_vars, export_vars>>

(***************************************************************************)
(* Claims on canonicalize_description.                                     *)
(***************************************************************************)
IsStopLine(l) == Strip(l) \in STOP_AT
HasStop == \E j \in 1..Len(lines) : IsStopLine(lines[j])
FirstStop ==
    CHOOSE j \in 1..Len(lines) :
        IsStopLine(lines[j]) /\ \A k \in 1..(j - 1) : ~IsStopLine(lines[k])
Appended == SubSeq(block', Len(block) + 1, Len(block'))

\* C1: in a docstring with a stop-marker line, the switch to verbatim mode is
\* one-way: every line after the first stop-marker line (blank ones too) is
\* appended unchanged plus a newline, and no line before it is appended in that
\* form: it is folded into the paragraph, made a list item, or a paragraph break.
C1_VerbatimOneWay ==
    [][(canon_pc = "loop" /\ line_no < Len(lines) /\ HasStop) =>
         LET n == line_no + 1
             line == lines[n]
         IN  /\ ~group => ~group'
             /\ n > FirstStop =>
                  /\ ~group'
                  /\ block' = block \o line \o <<"\n">>
             /\ n < FirstStop =>
                  /\ group'
                  /\ block' # block \o line \o <<"\n">>
                  /\ SubSeq(block', 1, Len(block)) = block
                  /\ \/ line # <<>> /\ Appended = <<" ">> \o RStrip(line)
                     \/ line # <<>> /\ Contains(Appended, ITEM)
                     \/ line = <<>> /\ EndsWith(Appended, <<"\n", "\n">>)]_vars

\* A finished docstring with a line before the first stop marker and a blank
\* line after it, which was passed through.
C1_Witness ==
    /\ canon_pc = "done"
    /\ HasStop
    /\ FirstStop > 1
    /\ \E n \in (FirstStop + 1)..Len(lines) : lines[n] = <<>>
    /\ ~group
    /\ EndsWith(block, lines[FirstStop] \o <<"\n", "\n">>)

\* A line the grouped branch treats as a list item.
GroupedBullet(n) ==
    /\ n \in 1..Len(lines)
    /\ \A k \in 1..n : ~IsStopLine(lines[k])
    /\ lines[n] # <<>>
    /\ StartsWith(Strip(lines[n]), <<"*">>)
RunStart(n) == GroupedBullet(n) /\ ~GroupedBullet(n - 1)
RunEnd(n) == GroupedBullet(n) /\ ~GroupedBullet(n + 1)

\* The list commands of a text, in order of occurrence.
RECURSIVE ListTokensFrom(_, _)
ListTokensFrom(t, i) ==
    IF i > Len(t) THEN <<>>
    ELSE IF IsAt(t, BEGIN_ITEMIZE, i)
         THEN <<"begin">> \o ListTokensFrom(t, i + Len(BEGIN_ITEMIZE))
    ELSE IF IsAt(t, END_ITEMIZE, i)
         THEN <<"end">> \o ListTokensFrom(t, i + Len(END_ITEMIZE))
    ELSE IF IsAt(t, ITEM, i)
         THEN <<"item">> \o ListTokensFrom(t, i + Len(ITEM))
    ELSE ListTokensFrom(t, i + 1)
ListTokens(t) == ListTokensFrom(t, 1)

\* One open, one item per line, one close, for each maximal run, in line order.
RECURSIVE WrappedRunsFrom(_)
WrappedRunsFrom(n) ==
    IF n > Len(lines) THEN <<>>
    ELSE (IF RunStart(n) THEN <<"begin">> ELSE <<>>)
         \o (IF GroupedBullet(n) THEN <<"item">> ELSE <<>>)
         \o (IF RunEnd(n) THEN <<"end">> ELSE <<>>)
         \o WrappedRunsFrom(n + 1)
WrappedRuns == WrappedRunsFrom(1)

\* An empty line follows the run ending at line n before the next '*' line, the
\* first stop-marker line and the end of the docstring.
ClosedByEmptyLine(n) ==
    \E m \in (n + 1)..Len(lines) :
        /\ lines[m] = <<>>
        /\ \A k \in (n + 1)..(m - 1) : ~GroupedBullet(k) /\ ~IsStopLine(lines[k])
AllRunsClosed == \A n \in 1..Len(lines) : RunEnd(n) => ClosedByEmptyLine(n)

\* C2 as stated: every maximal run of grouped '*' lines is wrapped in exactly
\* one \begin{itemize} and one \end{itemize} with one \item per line, whatever
\* follows the run.
C2_Original == canon_pc = "done" => ListTokens(block) = WrappedRuns

\* C2 amended: one \item per grouped '*' line, in order; the runs are wrapped in
\* one \begin{itemize}/\end{itemize} pair each exactly when an empty line follows
\* every run before the next '*' line, the stop marker or the end of the docstring.
C2_WrappedWhenClosed ==
    canon_pc = "done" =>
        /\ Count(block, ITEM) = Cardinality({n \in 1..Len(lines) : GroupedBullet(n)})
        /\ AllRunsClosed <=> ListTokens(block) = WrappedRuns

\* A finished docstring with a run of two '*' lines closed by an empty line.
C2_Witness ==
    /\ canon_pc = "done"
    /\ Len(lines) >= 3
    /\ RunStart(1) /\ RunEnd(2)
    /\ lines[3] = <<>>
    /\ ListTokens(block) = <<"begin", "item", "item", "end">>

(***************************************************************************)
(* _sanitize and convert_type                                              *)
(***************************************************************************)
A2_SUPPORT == <<"a", "2", "_", "s", "u", "p", "p", "o", "r", "t", ".">>
A2_SOLUTION == <<"a", "2", "_", "s", "o", "l", "u", "t", "i", "o", "n", ".">>

_sanitize(text) ==
    Replace(Replace(Replace(Replace(text, A2_SUPPORT, <<>>), A2_SOLUTION, <<>>),
                    <<"_">>, <<"\\", "_">>),
            <<"#">>, <<"\\", "#">>)

UNION_OPEN == <<"U", "n", "i", "o", "n", "[">>
NONETYPE == <<"N", "o", "n", "e", "T", "y", "p", "e">>
NONE == <<"N", "o", "n", "e">>
\* ", NoneType]" of the pattern; its space is U+00A0.
NONE_TAIL == <<",", NBSP>> \o NONETYPE \o <<"]">>
OPTIONAL_OPEN == <<"O", "p", "t", "i", "o", "n", "a", "l", "[">>

\* The length of the lazy group ([^,]+?) starting at i: the least k >= 1 with no
\* comma in t[i .. i+k-1] and the rest of the pattern at i+k; 0 when none.
GroupLen(t, i) ==
    LET ks == {k \in 1..Len(t) :
                  /\ \A j \in i..(i + k - 1) : j <= Len(t) /\ t[j] # ","
                  /\ IsAt(t, NONE_TAIL, i + k)}
    IN  IF ks = {} THEN 0 ELSE CHOOSE k \in ks : \A l \in ks : k <= l

\* re.sub(r'Union\[([^,]+?), NoneType\]', r'Optional[\1]', t): leftmost,
\* non-overlapping matches.
RECURSIVE SubOptionalFrom(_, _)
SubOptionalFrom(t, i) ==
    IF i > Len(t) THEN <<>>
    ELSE IF IsAt(t, UNION_OPEN, i) /\ GroupLen(t, i + Len(UNION_OPEN)) > 0
    THEN LET g == i + Len(UNION_OPEN)
             k == GroupLen(t, g)
         IN  OPTIONAL_OPEN \o SubSeq(t, g, g + k - 1) \o <<"]">>
             \o SubOptionalFrom(t, g + k + Len(NONE_TAIL))
    ELSE <<t[i]>> \o SubOptionalFrom(t, i + 1)

convert_type(rep) ==
    Replace(SubOptionalFrom(_sanitize(rep), 1), NONETYPE, NONE)

\* Type texts as the introspection layer prints them: ", " with U+00A0.
SEP == <<",", NBSP>>
Generic(a, b) == <<"D", "i", "c", "t", "[">> \o a \o SEP \o b \o <<"]">>
TypeAtoms == {<<"x">>, <<"m", "_", "t">>, NONETYPE}
Members == TypeAtoms \cup {Generic(<<"x">>, b) : b \in {<<"x">>, NONETYPE}}
UnionOf(ms) == UNION_OPEN \o Join(SEP, ms) \o <<"]">>
Unions == {UnionOf(ms) : ms \in SeqsUpTo(Members, MaxMembers) \ {<<>>}}
\* The same with an ordinary space, as a caller may write them.
PlainUnions == {Replace(u, <<NBSP>>, <<" ">>) : u \in Unions}

TextPieces == {<<"x">>, <<"_">>, <<"#">>, <<"\\">>, A2_SUPPORT, <<"a", "2", "_", "s", "o">>,
               <<"l", "u", "t", "i", "o", "n", ".">>}
Texts == {Concat(ps) : ps \in SeqsUpTo(TextPieces, MaxTypePieces)}

TextIdle ==
    /\ type_rep = <<>>
    /\ result = <<>>
    /\ text_pc = "idle"

TextInit ==
    /\ type_rep \in Texts \cup Members \cup Unions \cup PlainUnions
    /\ result = <<>>
    /\ text_pc = "start"

\* result = _sanitize(text)
Sanitize ==
    /\ text_pc = "start"
    /\ result' = _sanitize(type_rep)
    /\ text_pc' = "sanitized"
    /\ UNCHANGED <<type_rep, canon_vars, export_vars>>

\* _sanitize applied to text that already went through it (as markup does to
\* the output of parameters_to_latex, formatters.py 253).
SanitizeAgain ==
    /\ text_pc = "sanitized"
    /\ result' = _sanitize(result)
    /\ text_pc' = "resanitized"
    /\ UNCHANGED <<type_rep, canon_vars, export_vars>>

\* result = convert_type(type_rep)
ConvertType ==
    /\ text_pc = "start"
    /\ result' = convert_type(type_rep)
    /\ text_pc' = "converted"
    /\ UNCHANGED <<type_rep, canon_vars, export_vars>>

(***************************************************************************)
(* Claims on _sanitize and convert_type.                                   *)
(***************************************************************************)
\* A single type: not empty, brackets balanced, commas only inside brackets.
TopLevel(t, i) ==
    Cardinality({j \in 1..i : t[j] = "["}) = Cardinality({j \in 1..i : t[j] = "]"})
SingleType(t) ==
    /\ t # <<>>
    /\ TopLevel(t, Len(t))
    /\ \A i \in 1..Len(t) :
          /\ Cardinality({j \in 1..i : t[j] = "]"}) <= Cardinality({j \in 1..i : t[j] = "["})
          /\ t[i] = "," => ~TopLevel(t, i)
\* The commas between the members of Union[...].
MemberCommas(t) ==
    {i \in 1..Len(t) :
        /\ t[i] = ","
        /\ Cardinality({j \in 1..i : t[j] = "["})
             = Cardinality({j \in 1..i : t[j] = "]"}) + 1}
IsUnion(t) == StartsWith(t, UNION_OPEN) /\ t[Len(t)] = "]" /\ SingleType(t)

\* C3 as stated, with X rendered the way a type text on its own is: for every
\* single type X, "Union[X, NoneType]" gives "Optional[X]"; "NoneType" gives "None";
\* a Union of three or more members is only changed by NoneType -> None.
C3_Original ==
    text_pc = "converted" =>
        /\ (/\ IsUnion(type_rep)
            /\ EndsWith(type_rep, NONE_TAIL)
            /\ Len(type_rep) > Len(UNION_OPEN) + Len(NONE_TAIL)
            /\ SingleType(SubSeq(type_rep, Len(UNION_OPEN) + 1,
                                 Len(type_rep) - Len(NONE_TAIL))))
           => result = OPTIONAL_OPEN
                       \o convert_type(SubSeq(type_rep, Len(UNION_OPEN) + 1,
                                              Len(type_rep) - Len(NONE_TAIL)))
                       \o <<"]">>
        /\ type_rep = NONETYPE => result = NONE
        /\ (IsUnion(type_rep) /\ Cardinality(MemberCommas(type_rep)) >= 2)
           => result = Replace(_sanitize(type_rep), NONETYPE, NONE)

\* C4 as stated: _sanitize(_sanitize(t)) = _sanitize(t) for every text t.
C4_Original == text_pc = "resanitized" => result = _sanitize(type_rep)

(***************************************************************************)
(* markup, method_to_latex and its helpers                                 *)
(***************************************************************************)
\* An optional value: <<>> is None, <<v>> is v.
None == <<>>
Some(v) == <<v>>
\* str(x)
Str(opt) == IF opt = None THEN NONE ELSE opt[1]

\* The end of the greedy match of d(.*)d starting at i ('.' matches no newline):
\* the last d on the line of i; 0 when there is none.
SpanEnd(t, i, d) ==
    LET js == {j \in (i + 1)..Len(t) :
                  t[j] = d /\ \A k \in (i + 1)..(j - 1) : t[k] # "\n"}
    IN  IF js = {} THEN 0 ELSE CHOOSE j \in js : \A l \in js : l <= j

\* re.sub(d(.*)d, open \1 close, t)
RECURSIVE ReSubSpan(_, _, _, _, _)
ReSubSpan(t, i, d, open, close) ==
    IF i > Len(t) THEN <<>>
    ELSE IF t[i] = d /\ SpanEnd(t, i, d) > 0
    THEN open \o SubSeq(t, i + 1, SpanEnd(t, i, d) - 1) \o close
         \o ReSubSpan(t, SpanEnd(t, i, d) + 1, d, open, close)
    ELSE <<t[i]>> \o ReSubSpan(t, i + 1, d, open, close)

markup(markdown) ==
    _sanitize(
        ReSubSpan(
            ReSubSpan(
                ReSubSpan(markdown, 1, BACKTICK, <<"\\texttt{">>, <<"}">>),
                1, "_", <<"\\textsl{">>, <<"}">>),
            1, QUOTE, <<BACKTICK>>, <<QUOTE>>))

RECURSIVE ParamItems(_)
ParamItems(params) ==
    IF params = <<>> THEN <<>>
    ELSE <<"\\item \\texttt{">> \o Head(params).arg_name \o <<"}: ">>
         \o Head(params).description \o <<"\n">> \o ParamItems(Tail(params))

parameters_to_latex(params) ==
    IF Len(params) <= 0 THEN <<>>
    ELSE <<"\\begin{itemize}\n">> \o ParamItems(params) \o <<"\\end{itemize}\n">>

examples_to_latex(example) ==
    <<"\\textbf{Examples}\n", "\\begin{example}\n">>
    \o ReSubSpan(Replace(Replace(example.description, <<"{">>, <<"\\", "{">>),
                         <<"}">>, <<"\\", "}">>),
                 1, QUOTE, <<"{\\textquotesingle}">>, <<"{\\textquotesingle}">>)
    \o <<"\n", "\\end{example}\n">>

RECURSIVE meta_to_latex(_)
meta_to_latex(metas) ==
    IF metas = <<>> THEN <<>>
    ELSE (IF "examples" \in Head(metas).args THEN examples_to_latex(Head(metas)) ELSE <<>>)
         \o meta_to_latex(Tail(metas))

\* docstring_parser.parse on a text without section titles: the text is cleaned
\* of surrounding blank space, its first line is the short description (None
\* when empty), the stripped rest the long description (None when empty).
FirstNewline(t) ==
    IF \E i \in 1..Len(t) : t[i] = "\n"
    THEN CHOOSE i \in 1..Len(t) : t[i] = "\n" /\ \A j \in 1..(i - 1) : t[j] # "\n"
    ELSE 0
parse(text) ==
    LET clean == Strip(text)
        nl == FirstNewline(clean)
        first == IF nl = 0 THEN clean ELSE SubSeq(clean, 1, nl - 1)
        rest == IF nl = 0 THEN <<>> ELSE Strip(SubSeq(clean, nl + 1, Len(clean)))
    IN  [short_description |-> IF first = <<>> THEN None ELSE Some(first),
         long_description |-> IF rest = <<>> THEN None ELSE Some(rest),
         params |-> <<>>,
         meta |-> <<>>]

NoError == "none"
NotIterable == "TypeError: 'Module' object is not iterable"
NotAString == "TypeError: expected string or bytes-like object"

\* The result of a call that may raise: the value, or the error raised.
Returned(v) == [value |-> v, error |-> NoError]
Raised(e) == [value |-> <<>>, error |-> e]

method_to_latex(doc_text) ==
    LET doc == parse(canonicalize_description(doc_text))
        description ==
            IF doc.short_description # None /\ doc.long_description # None
            THEN Some(doc.short_description[1] \o <<"\n", "\n">> \o doc.long_description[1])
            ELSE doc.short_description
    IN  IF description = None
        THEN Raised(NotAString)      \* markup(None): re.sub on None
        ELSE Returned(markup(description[1]) \o <<"\n">>
                      \o markup(parameters_to_latex(doc.params))
                      \o <<"\n", "\n">>
                      \o meta_to_latex(doc.meta))

(***************************************************************************)
(* Signature of a method (formatters.py 85-91, 164-170)                    *)
(***************************************************************************)
CONSTRUCTOR == <<"C", "o", "n", "s", "t", "r", "u", "c", "t", "o", "r">>
SANITIZED_INIT == <<"\\", "_", "\\", "_", "i", "n", "i", "t", "\\", "_", "\\", "_">>

method_signature(method) ==
    LET sig == _sanitize(method.name)
               \o <<"(">> \o convert_type(Join(<<",", " ">>, method.params)) \o <<")">>
               \o <<" -> ">> \o convert_type(method.return_annotation)
    IN  IF StartsWith(sig, SANITIZED_INIT) THEN CONSTRUCTOR ELSE sig

(***************************************************************************)
(* The emitters.  Each _add_* takes the body and gives the body after the  *)
(* call and the error raised, if any; what was appended before an error    *)
(* stays in the body.                                                      *)
(***************************************************************************)
Built(b) == [body |-> b, error |-> NoError]
Failed(b, e) == [body |-> b, error |-> e]

Markdown_add_marker(b, title) == b

Markdown_add_class(b, clazz) ==
    LET b1 == Append(b, <<"# ">> \o clazz.name)
        b2 == IF Len(clazz.mro) > 0
              THEN Append(b1, <<"Inherits from ", BACKTICK>> \o clazz.mro[1] \o <<BACKTICK>>)
              ELSE b1
    IN  Built(Append(b2, <<"doc: ">> \o Str(clazz.doc)))

Markdown_add_method(b, method) ==
    Built(b \o << <<"## ", BACKTICK>> \o method_signature(method) \o <<BACKTICK>>,
                  method.docstring,
                  <<"\n">> >>)

NODE == 0
EDGE == 1
RANK == 2

Dot_add_marker(b, title) == b

\* A slip: the class is put in the rank group whether it has an ancestor or not.
Dot_add_class_RankAlways(b, clazz) ==
    LET b1 == Append(b, <<NODE, <<"\"">> \o clazz.name \o <<"\" [color=cyan3, label=\"">>
                                \o clazz.name \o <<"\", shape=\"box\"];">> >>)
        b2 == IF Len(clazz.mro) > 0
              THEN Append(b1, <<EDGE, <<"\"">> \o clazz.name \o <<"\" -> \"">> \o clazz.mro[1]
                                      \o <<"\" [arrowhead=\"empty\", arrowtail=\"none\"];">> >>)
              ELSE b1
    IN  Built(Append(b2, <<RANK, clazz.name>>))

Dot_add_class(b, clazz) ==
    LET b1 == Append(b, <<NODE, <<"\"">> \o clazz.name \o <<"\" [color=cyan3, label=\"">>
                                \o clazz.name \o <<"\", shape=\"box\"];">> >>)
    IN  IF Len(clazz.mro) > 0
        THEN Built(Append(b1, <<EDGE, <<"\"">> \o clazz.name \o <<"\" -> \"">> \o clazz.mro[1]
                                      \o <<"\" [arrowhead=\"empty\", arrowtail=\"none\"];">> >>))
        ELSE Built(Append(b1, <<RANK, clazz.name>>))

Dot_add_method(b, method) == Built(b)

Latex_add_marker(b, title) ==
    b \o << <<"\\vspace{10mm}">>,
            <<"\\subsection{">> \o title \o <<"}">>,
            <<"\n">>,
            <<"\\vspace{-12mm}">> >>

Latex_add_class(b, clazz) ==
    LET b1 == b \o << <<"\\vspace{15mm}">>,
                      <<"\\classname{">> \o clazz.name \o <<"}\\vspace{3mm}\\newline">> >>
        b2 == IF Len(clazz.mro) > 0
              THEN Append(b1, <<"\\textbf{Inherits from ">> \o markup(clazz.mro[1])
                              \o <<"}\\newline">>)
              ELSE b1
        latex == method_to_latex(Str(clazz.doc))
    IN  IF latex.error # NoError THEN Failed(b2, latex.error)
        ELSE Built(Append(b2, latex.value))

Latex_add_method(b, method) ==
    LET b1 == b \o << <<"\\vspace{8mm}">>,
                      <<"\\methodname{">> \o method_signature(method)
                          \o <<"}\\vspace{2mm}\\newline">> >>
        latex == method_to_latex(method.docstring)
    IN  IF latex.error # NoError THEN Failed(b1, latex.error)
        ELSE Built(b1 \o <<latex.value, <<"\n">> >>)

_add_marker(k, b, title) ==
    CASE k = "latex" -> Latex_add_marker(b, title)
      [] k = "markdown" -> Markdown_add_marker(b, title)
      [] k = "dot" -> Dot_add_marker(b, title)

_add_class(k, b, clazz) ==
    CASE k = "latex" -> Latex_add_class(b, clazz)
      [] k = "markdown" -> Markdown_add_class(b, clazz)
      [] k = "dot" -> Dot_add_class(b, clazz)

_add_method(k, b, method) ==
    CASE k = "latex" -> Latex_add_method(b, method)
      [] k = "markdown" -> Markdown_add_method(b, method)
      [] k = "dot" -> Dot_add_method(b, method)

(***************************************************************************)
(* _format                                                                 *)
(***************************************************************************)
\* The code point of a character of the class names; the literals of the
\* statements start with '"'.
CodePoint(c) ==
    CASE c = "B" -> 66 [] c = "F" -> 70 [] c = "K" -> 75 [] c = "a" -> 97
      [] c = "d" -> 100 [] c = "e" -> 101 [] c = "i" -> 105 [] c = "o" -> 111
      [] c = "s" -> 115 [] OTHER -> 34

\* s < t for Python strings
RECURSIVE TextLess(_, _)
TextLess(s, t) ==
    IF t = <<>> THEN FALSE
    ELSE IF s = <<>> THEN TRUE
    ELSE IF Head(s) = Head(t) THEN TextLess(Tail(s), Tail(t))
    ELSE CodePoint(Head(s)) < CodePoint(Head(t))

\* (x[0], x[1]) < (y[0], y[1])
KeyLess(x, y) == x[1] < y[1] \/ (x[1] = y[1] /\ TextLess(x[2], y[2]))

\* list.sort(key=...): stable, ascending.
RECURSIVE InsertSorted(_, _)
InsertSorted(sorted, x) ==
    IF sorted = <<>> THEN <<x>>
    ELSE IF KeyLess(x, Head(sorted)) THEN <<x>> \o sorted
    ELSE <<Head(sorted)>> \o InsertSorted(Tail(sorted), x)
RECURSIVE Sort(_)
Sort(b) ==
    IF b = <<>> THEN <<>>
    ELSE InsertSorted(Sort(SubSeq(b, 1, Len(b) - 1)), b[Len(b)])

RECURSIVE Messages(_)
Messages(b) ==
    IF b = <<>> THEN <<>>
    ELSE (IF Head(b)[1] # RANK THEN <<Head(b)[2]>> ELSE <<>>) \o Messages(Tail(b))
RECURSIVE OriginClasses(_)
OriginClasses(b) ==
    IF b = <<>> THEN <<>>
    ELSE (IF Head(b)[1] = RANK THEN << <<"\"">> \o Head(b)[2] \o <<"\"">> >> ELSE <<>>)
         \o OriginClasses(Tail(b))

DOT_HEADER == <<"digraph \"classes\" {\ncharset=\"utf-8\"\nrankdir=BT\n">>
RANK_OPEN == <<"\n{ rank=same; ">>
RANK_CLOSE == <<" }\n">>

\* The body after the call (the dot formatter sorts it in place) and the text.
Dot_format(b) ==
    LET sorted == Sort(b)
    IN  [body |-> sorted,
         text |-> DOT_HEADER \o Join(<<"\n">>, Messages(sorted))
                  \o RANK_OPEN \o Join(<<",", " ">>, OriginClasses(sorted)) \o RANK_CLOSE
                  \o <<"}">>]

Markdown_format(b) == [body |-> b, text |-> Join(<<"\n">>, b)]
Latex_format(b) == [body |-> b, text |-> Join(<<"\n">>, b)]

_format(k, b) ==
    CASE k = "latex" -> Latex_format(b)
      [] k = "markdown" -> Markdown_format(b)
      [] k = "dot" -> Dot_format(b)

\* A slip: the accumulator of the last pass is kept.
_clear_KeepsBody(b) == b

_clear(b) == <<>>

(***************************************************************************)
(* traverse: the generator, as a stack of frames.  A frame iterates over   *)
(* its argument; idx modules of it were yielded, and sub submodules of the *)
(* last yielded module were handed to a nested traverse.                   *)
(***************************************************************************)
NoModule == [name |-> "", classes |-> <<>>, submodules |-> <<>>]
ListOf(ms) == [is_list |-> TRUE, items |-> ms]
OneModule(m) == [is_list |-> FALSE, items |-> <<m>>]
Frame(arg) == [over |-> arg, idx |-> 0, sub |-> 0]

\* traverse(self._modules): nothing runs before the first next().
traverse(ms) == <<Frame(ListOf(ms))>>

\* next() on the generator: runs it up to its next yield, its end or an error.
RECURSIVE Resume(_)
Resume(stack) ==
    IF stack = <<>>
    THEN [gen |-> <<>>, outcome |-> "stop", value |-> NoModule, error |-> NoError]
    ELSE LET f == stack[Len(stack)]
             below == SubSeq(stack, 1, Len(stack) - 1)
         IN  IF ~f.over.is_list
             \* for mod in modules: a pdoc.Module is not iterable
             THEN [gen |-> <<>>, outcome |-> "raise", value |-> NoModule,
                   error |-> NotIterable]
             ELSE IF f.idx > 0 /\ f.sub < Len(f.over.items[f.idx].submodules)
             \* yield from traverse(submod)
             THEN Resume(below
                         \o <<[f EXCEPT !.sub = f.sub + 1]>>
                         \o <<Frame(OneModule(f.over.items[f.idx].submodules[f.sub + 1]))>>)
             ELSE IF f.idx < Len(f.over.items)
             \* yield mod
             THEN [gen |-> below \o <<[f EXCEPT !.idx = f.idx + 1, !.sub = 0]>>,
                   outcome |-> "yield", value |-> f.over.items[f.idx + 1],
                   error |-> NoError]
             ELSE Resume(below)

(***************************************************************************)
(* The descriptors the introspection layer hands over.                     *)
(***************************************************************************)
Foo == <<"F", "o", "o">>
Kid == <<"K", "i", "d">>
Base == <<"B", "a", "s", "e">>

bar == [name |-> <<"b", "a", "r">>,
        params |-> << <<"x", ":", " ", "i", "n", "t">> >>,
        return_annotation |-> <<"s", "t", "r">>,
        docstring |-> <<"Adds", " ", "one", " ", "to", " ", "x", ".">>]
init == [name |-> <<"_", "_", "i", "n", "i", "t", "_", "_">>,
         params |-> << <<"s", "e", "l", "f">>, <<"n", ":", " ", "i", "n", "t">> >>,
         return_annotation |-> NONETYPE,
         docstring |-> <<"Make", " ", "a", " ", BACKTICK, "Kid", BACKTICK, ".">>]
get_it == [name |-> <<"g", "e", "t", "_", "i", "t">>,
           params |-> << <<"s", "e", "l", "f">> >>,
           return_annotation |-> UnionOf(<< <<"i", "n", "t">>, NONETYPE >>),
           docstring |-> <<"Gives", " ", QUOTE, "it", QUOTE, ".", "\n", "\n",
                           "*", " ", "fast", "\n", "*", " ", "safe", "\n", "\n",
                           "Done", ".">>]
\* A method without a docstring: the introspection layer reports "".
peek_at == [name |-> <<"p", "e", "e", "k", "_", "a", "t">>,
            params |-> <<>>,
            return_annotation |-> <<"i", "n", "t">>,
            docstring |-> <<>>]

FooClass == [name |-> Foo, mro |-> <<>>, doc |-> None, methods |-> <<bar>>]
KidClass == [name |-> Kid, mro |-> <<Foo, Base>>,
             doc |-> Some(<<"A", " ", "kid", ".">>), methods |-> <<init, get_it>>]
BaseClass == [name |-> Base, mro |-> <<>>,
              doc |-> Some(<<"The", " ", "base", ".">>), methods |-> <<peek_at>>]
\* Another class named Foo, of another module.
OtherFooClass == [name |-> Foo, mro |-> <<Base>>, doc |-> None, methods |-> <<>>]

Module(n, cs, subs) == [name |-> n, classes |-> cs, submodules |-> subs]
mod_a == Module("a", <<FooClass, KidClass>>, <<>>)
mod_b == Module("b", <<BaseClass>>, <<>>)
mod_c == Module("c", <<OtherFooClass>>, <<>>)
mod_e == Module("e", <<>>, <<>>)
pkg == Module("pkg", <<FooClass>>, <<mod_c>>)
deep == Module("deep", <<>>, <<pkg, mod_b>>)
ModulePool == {mod_a, mod_b, mod_c, mod_e, pkg, deep}

SectionOne == <<"Section", " ", "One">>
SectionTwo == <<"Section", " ", "Two">>
NoMarkers == [n \in {} |-> <<>>]
MarkerMaps == {NoMarkers,
               [n \in {Foo} |-> SectionOne],
               [n \in {Foo, Kid} |-> IF n = Foo THEN SectionOne ELSE SectionTwo]}

(***************************************************************************)
(* Formatter.export                                                        *)
(***************************************************************************)
ExportIdle ==
    /\ kind = "none"
    /\ modules = <<>>
    /\ markers = NoMarkers
    /\ body = <<>>
    /\ gen = <<>>
    /\ mod = NoModule
    /\ visited = <<>>
    /\ class_no = 0
    /\ method_no = 0
    /\ pc = "off"
    /\ error = NoError
    /\ outfile = None
    /\ written = <<>>
    /\ exports = 0

\* Formatter.__init__
ExportInit ==
    /\ kind \in {"latex", "markdown", "dot"}
    /\ modules \in SeqsUpTo(ModulePool, MaxRoots)
    /\ markers \in MarkerMaps
    /\ body = <<>>
    /\ gen = <<>>
    /\ mod = NoModule
    /\ visited = <<>>
    /\ class_no = 0
    /\ method_no = 0
    /\ pc = "idle"
    /\ error = NoError
    /\ outfile = None
    /\ written = <<>>
    /\ exports = 0

\* export(file): self._clear(), and _build starts its loop over traverse(...).
ExportCall ==
    /\ pc = "idle"
    /\ exports < MaxExports
    /\ exports' = exports + 1
    /\ body' = _clear(body)
    /\ gen' = traverse(modules)
    /\ mod' = NoModule
    /\ visited' = <<>>
    /\ class_no' = 0
    /\ method_no' = 0
    /\ pc' = "build"
    /\ UNCHANGED <<kind, modules, markers, error, outfile, written, canon_vars, text_vars>>

\* for mod in traverse(self._modules): the classes of the last module are done.
NextModule ==
    /\ pc = "build"
    /\ class_no = Len(mod.classes)
    /\ LET r == Resume(gen)
       IN  /\ gen' = r.gen
           /\ error' = r.error
           /\ IF r.outcome = "yield"
              THEN /\ mod' = r.value
                   /\ visited' = Append(visited, r.value)
                   /\ class_no' = 0
                   /\ pc' = "build"
              ELSE /\ pc' = IF r.outcome = "stop" THEN "format" ELSE "raised"
                   /\ UNCHANGED <<mod, visited, class_no>>
    /\ UNCHANGED <<kind, modules, markers, body, method_no, outfile, written, exports,
                   canon_vars, text_vars>>

\* for clazz in mod.classes(sort=False): the marker, if any, and _add_class.
VisitClass ==
    /\ pc = "build"
    /\ class_no < Len(mod.classes)
    /\ LET clazz == mod.classes[class_no + 1]
           b == IF clazz.name \in DOMAIN markers
                THEN _add_marker(kind, body, markers[clazz.name])
                ELSE body
           r == _add_class(kind, b, clazz)
       IN  /\ body' = r.body
           /\ error' = r.error
           /\ pc' = IF r.error # NoError THEN "raised"
                    ELSE IF clazz.methods = <<>> THEN "build" ELSE "methods"
    /\ class_no' = class_no + 1
    /\ method_no' = 0
    /\ UNCHANGED <<kind, modules, markers, gen, mod, visited, outfile, written, exports,
                   canon_vars, text_vars>>

\* for method in clazz.methods(include_inherited=False, sort=False): _add_method.
VisitMethod ==
    /\ pc = "methods"
    /\ LET methods == mod.classes[class_no].methods
           r == _add_method(kind, body, methods[method_no + 1])
       IN  /\ body' = r.body
           /\ error' = r.error
           /\ pc' = IF r.error # NoError THEN "raised"
                    ELSE IF method_no + 1 = Len(methods) THEN "build" ELSE "methods"
    /\ method_no' = method_no + 1
    /\ UNCHANGED <<kind, modules, markers, gen, mod, visited, class_no, outfile, written,
                   exports, canon_vars, text_vars>>

\* with open(file, 'w') as outfile: outfile.write(self._format(self._body))
WriteFile ==
    /\ pc = "format"
    /\ LET r == _format(kind, body)
       IN  /\ body' = r.body
           /\ outfile' = Some(r.text)
           /\ written' = Append(written, r.text)
    /\ pc' = "idle"
    /\ UNCHANGED <<kind, modules, markers, gen, mod, visited, class_no, method_no, error,
                   exports, canon_vars, text_vars>>

(***************************************************************************)
(* Claims on the emitters and on export.                                   *)
(***************************************************************************)
RECURSIVE ClassesOf(_)
ClassesOf(ms) == IF ms = <<>> THEN <<>> ELSE Head(ms).classes \o ClassesOf(Tail(ms))
ClassNames == {Foo, Kid, Base}
Occurrences(seq, x) == Cardinality({i \in 1..Len(seq) : seq[i] = x})
HowMany(seq, P(_)) == Cardinality({i \in 1..Len(seq) : P(seq[i])})

SubsectionOf(title) == <<"\\subsection{">> \o title \o <<"}">>
ClassHeader(n) == <<"\\classname{">> \o n \o <<"}\\vspace{3mm}\\newline">>

\* C5 as stated: the LaTeX emitter emits the section break of a marked class
\* name at most once per name, where the first class of that name is visited,
\* right before that class's header; the Markdown emitter emits nothing for it.
C5_Original ==
    /\ kind = "latex" =>
          \A n \in DOMAIN markers :
             /\ Occurrences(body, SubsectionOf(markers[n])) <= 1
             /\ \A i \in 1..Len(body) :
                   body[i] = SubsectionOf(markers[n]) =>
                      /\ i > 1 /\ body[i - 1] = <<"\\vspace{10mm}">>
                      /\ i + 4 <= Len(body)
                      /\ body[i + 1] = <<"\n">>
                      /\ body[i + 2] = <<"\\vspace{-12mm}">>
                      /\ body[i + 3] = <<"\\vspace{15mm}">>
                      /\ body[i + 4] = ClassHeader(n)
                      /\ \A j \in 1..(i - 1) : body[j] # ClassHeader(n)
    /\ kind = "markdown" =>
          \A n \in DOMAIN markers, i \in 1..Len(body) : ~Contains(body[i], markers[n])

NodeStatement(n) ==
    <<"\"">> \o n \o <<"\" [color=cyan3, label=\"">> \o n \o <<"\", shape=\"box\"];">>
EdgeStatement(n, a) ==
    <<"\"">> \o n \o <<"\" -> \"">> \o a \o <<"\" [arrowhead=\"empty\", arrowtail=\"none\"];">>
\* What the written text lists between "{ rank=same; " and " }".
RankGroup(text) ==
    LET from == CHOOSE i \in 1..Len(text) : text[i] = RANK_OPEN[1]
        to == CHOOSE i \in 1..Len(text) : text[i] = RANK_CLOSE[1]
    IN  SubSeq(text, from + 1, to - 1)
Quoted(n) == <<"\"">> \o n \o <<"\"">>

\* C6: the written graph holds one node statement per visited class; a class with
\* an ancestor has exactly one edge statement, to its first ancestor, and is not
\* in the rank=same group; a class is in that group iff it has no ancestor.
C6_NodesEdgesRanks ==
    (kind = "dot" /\ pc = "idle" /\ outfile # None) =>
        LET text == outfile[1]
            classes == ClassesOf(visited)
        IN  \A n \in ClassNames :
               /\ Count(text, NodeStatement(n))
                    = Cardinality({i \in 1..Len(classes) : classes[i].name = n})
               /\ \A a \in ClassNames :
                     Count(text, EdgeStatement(n, a))
                       = Cardinality({i \in 1..Len(classes) :
                                         /\ classes[i].name = n
                                         /\ classes[i].mro # <<>>
                                         /\ classes[i].mro[1] = a})
               /\ Count(RankGroup(text), Quoted(n))
                    = Cardinality({i \in 1..Len(classes) :
                                      classes[i].name = n /\ classes[i].mro = <<>>})

\* A written graph of Foo, Kid(Foo, Base) and Base: Kid has its one edge, to Foo,
\* and the rank group lists Base and Foo.
C6_Witness ==
    /\ kind = "dot" /\ pc = "idle" /\ outfile # None
    /\ Len(ClassesOf(visited)) = 3
    /\ Count(outfile[1], EdgeStatement(Kid, Foo)) = 1
    /\ RankGroup(outfile[1]) = Quoted(Base) \o <<",", " ">> \o Quoted(Foo)

RenderedNone == NONE \o <<"\n", "\n", "\n">>

\* C7 as stated: in the LaTeX emitter an absent docstring (None for a class, ""
\* for a method) raises no error in method_to_latex and is rendered as "None".
C7_Original ==
    kind = "latex" =>
        /\ error # NotAString
        /\ (/\ error = NoError /\ class_no > 0 /\ method_no = 0
            /\ pc \in {"build", "methods"}
            /\ mod.classes[class_no].doc = None)
           => body[Len(body)] = RenderedNone
        /\ (/\ error = NoError /\ class_no > 0 /\ method_no > 0
            /\ pc \in {"build", "methods"}
            /\ mod.classes[class_no].methods[method_no].docstring = <<>>)
           => body[Len(body) - 1] = RenderedNone

\* The signature text with the types simplified and nothing escaped; the
\* constructor keeps its fixed label.
PlainSignature(method) ==
    IF method.name = <<"_", "_", "i", "n", "i", "t", "_", "_">> THEN CONSTRUCTOR
    ELSE method.name
         \o <<"(">>
         \o Replace(SubOptionalFrom(Join(<<",", " ">>, method.params), 1), NONETYPE, NONE)
         \o <<")">> \o <<" -> ">>
         \o Replace(SubOptionalFrom(method.return_annotation, 1), NONETYPE, NONE)
\* The fragments without the "\n" separators.
RECURSIVE WithoutSeparators(_)
WithoutSeparators(fs) ==
    IF fs = <<>> THEN <<>>
    ELSE (IF Head(fs) = <<"\n">> THEN <<>> ELSE <<Head(fs)>>) \o WithoutSeparators(Tail(fs))
Added == SubSeq(body', Len(body) + 1, Len(body'))

\* C8 as stated: for a class without ancestors the Markdown emitter appends
\* "# <name>", "doc: <docstring or None>" and, per method in declared order, the
\* header "## <name>(<params>) -> <return type>" with the signature unescaped
\* (in a code span or not), then the method's docstring.
C8_Original ==
    [][(kind = "markdown" /\ pc \in {"build", "methods"}) =>
         /\ (/\ pc = "build" /\ class_no' = class_no + 1
             /\ mod.classes[class_no + 1].mro = <<>>)
            => Added = << <<"# ">> \o mod.classes[class_no + 1].name,
                          <<"doc: ">> \o Str(mod.classes[class_no + 1].doc) >>
         /\ (/\ pc = "methods" /\ method_no' = method_no + 1
             /\ mod.classes[class_no].mro = <<>>)
            => LET method == mod.classes[class_no].methods[method_no + 1]
               IN  \/ WithoutSeparators(Added)
                        = << <<"## ">> \o PlainSignature(method), method.docstring >>
                   \/ WithoutSeparators(Added)
                        = << <<"## ", BACKTICK>> \o PlainSignature(method) \o <<BACKTICK>>,
                             method.docstring >>]_vars

\* document, then its submodules in listed order, recursively
RECURSIVE PreOrderOf(_, _)
PreOrderOf(ms, depth) ==
    IF ms = <<>> \/ depth = 0 THEN <<>>
    ELSE <<Head(ms)>> \o PreOrderOf(Head(ms).submodules, depth - 1)
         \o PreOrderOf(Tail(ms), depth)
PreOrder(ms) == PreOrderOf(ms, 4)
IsPrefix(s, t) == Len(s) <= Len(t) /\ SubSeq(t, 1, Len(s)) = s

\* The class and method headers the Markdown emitter has appended.
RECURSIVE Headers(_)
Headers(fs) ==
    IF fs = <<>> THEN <<>>
    ELSE (IF Head(fs) # <<>> /\ Head(fs)[1] \in {"# ", "## "} THEN <<Head(fs)>> ELSE <<>>)
         \o Headers(Tail(fs))
RECURSIVE MethodHeaders(_)
MethodHeaders(ms) ==
    IF ms = <<>> THEN <<>>
    ELSE << <<"## ", BACKTICK>> \o method_signature(Head(ms)) \o <<BACKTICK>> >>
         \o MethodHeaders(Tail(ms))
RECURSIVE ClassHeaders(_)
ClassHeaders(cs) ==
    IF cs = <<>> THEN <<>>
    ELSE << <<"# ">> \o Head(cs).name >> \o MethodHeaders(Head(cs).methods)
         \o ClassHeaders(Tail(cs))
\* The headers due when the traversal stands at class class_no, method method_no
\* of the last visited module.
HeadersDue ==
    ClassHeaders(ClassesOf(SubSeq(visited, 1, Len(visited) - 1)))
    \o (IF class_no = 0 THEN <<>>
        ELSE ClassHeaders(SubSeq(mod.classes, 1, class_no - 1))
             \o << <<"# ">> \o mod.classes[class_no].name >>
             \o MethodHeaders(SubSeq(mod.classes[class_no].methods, 1, method_no)))

\* C9 as stated: traverse visits every module and submodule exactly once, in
\* pre-order; a module's classes are visited in declared order, each header
\* before the class's methods, which come in declared order before the next class.
C9_Original ==
    /\ error # NotIterable
    /\ IsPrefix(visited, PreOrder(modules))
    /\ pc = "format" => visited = PreOrder(modules)
    /\ (kind = "markdown" /\ pc \in {"build", "methods", "format"})
          => Headers(body) = HeadersDue

\* C10: every export pass starts from an empty accumulator, writes the file once,
\* after the whole traversal, and every call writes what the first call wrote.
C10_FreshPass ==
    /\ (pc = "build" /\ visited = <<>>) => body = <<>>
    /\ \A i \in 1..Len(written) : written[i] = written[1]
    /\ Len(written) = IF pc = "idle" THEN exports ELSE exports - 1
    /\ (pc = "idle" /\ exports > 0) =>
          /\ gen = <<>>
          /\ class_no = Len(mod.classes)
          /\ outfile = Some(written[Len(written)])
          /\ outfile = Some(_format(kind, body).text)

\* Two passes of the dot formatter over three classes: both wrote the same text.
C10_Witness ==
    /\ kind = "dot"
    /\ pc = "idle"
    /\ exports >= 2
    /\ Len(written) = exports
    /\ Len(ClassesOf(visited)) = 3
    /\ Len(body) = 6

SpecCanonInit == CanonInit /\ TextIdle /\ ExportIdle
SpecCanonNext == CanonStep \/ CanonReturn
SpecCanon == SpecCanonInit /\ [][SpecCanonNext]_vars

SpecTextInit == CanonIdle /\ TextInit /\ ExportIdle
SpecTextNext == Sanitize \/ SanitizeAgain \/ ConvertType
SpecText == SpecTextInit /\ [][SpecTextNext]_vars

SpecExportInit == CanonIdle /\ TextIdle /\ ExportInit
SpecExportNext == ExportCall \/ NextModule \/ VisitClass \/ VisitMethod \/ WriteFile
SpecExport == SpecExportInit /\ [][SpecExportNext]_vars

====
